---------------------------- MODULE Spec2Model ----------------------------
(* pyshr: the CFFI wrapper (src/pyshr.py) around the shared-memory queue   *)
(* core libshr, whose declarations are bound in src/pyshr_build.py.        *)
(* The wrapper's methods are modelled from src/pyshr.py; the core queue    *)
(* engine, which lives outside src/, is modelled from spec.md and from the *)
(* parameter contracts stated in the cdef.                                 *)
EXTENDS Integers, Sequences, FiniteSets, TLC

VARIABLES
    exists,     \* the named segment exists
    maxDepth,   \* maximum depth given at creation
    queue,      \* items resident in the segment, head (next removed) first
    lifo,       \* adaptive-LIFO-on-limit flag of the queue header
    everAdded,  \* an item has been added since the segment was created
    fired,      \* events raised by the core inside the last operation
    nAdded,     \* number of successful adds so far
    nRemoved,   \* number of items handed to callers by remove* so far
    lifoEver,   \* history: limit_lifo(True) has been called
    cleaned,    \* history: clean has discarded an item
    creates,    \* history: number of successful shr_q_create calls
    pc,         \* per process: position of its current wrapper call
    mode,       \* per process: access mode of its handle
    pend,       \* per process: arguments of the call it is inside
    last,       \* outcome of the last completed wrapper call
    subs,       \* per process: the events its handle is subscribed to
    handle,     \* per process: its SharedQueue object (pq[0], buff[0])
    lock,       \* the mutation critical section and who is inside it
    limit,      \* per-item time limit of the queue header, 0 when not set
    discard,    \* discard-on-expire flag of the queue header
    now,        \* the clock
    stamp       \* enqueue time of each item, by sequence number

vars == <<exists, maxDepth, queue, lifo, everAdded, fired, nAdded, nRemoved,
          lifoEver, cleaned, creates, pc, mode, pend, last,
          subs, handle, lock, limit, discard, now, stamp>>

---------------------------------------------------------------------------
(* Bounds of the model                                                     *)

MaxAdds == 3        \* successful adds per behaviour
MaxCreateDepth == 2 \* largest max_depth passed to the constructor
SysMaxDepth == 3    \* stand-in for the system maximum chosen when size is 0
MaxVec == 2         \* longest list passed to addv in the codec specification
MaxTime == 2        \* last tick of the clock, and longest duration passed

Procs == {"p1", "p2"}

---------------------------------------------------------------------------
(* Enumerations of the binding                                             *)

SH_OK == 0
SH_RETRY == 1
SH_ERR_EMPTY == 2
SH_ERR_LIMIT == 3
SH_ERR_ARG == 4
SH_ERR_NOMEM == 5
SH_ERR_ACCESS == 6
SH_ERR_EXIST == 7
SH_ERR_STATE == 8

SQ_IMMUTABLE == 0
SQ_READ_ONLY == 1
SQ_WRITE_ONLY == 2
SQ_READWRITE == 3

EV_INIT == 1
EV_LIMIT == 2
EV_EMPTY == 5
EvNonEmptyAsEmpty == EV_EMPTY
EV_NONEMPTY == 6

SH_VECTOR_T == 0
SH_STRM_T == 1
SH_INTEGER_T == 2
SH_FLOAT_T == 3
SH_ASCII_T == 4
SH_UTF8_T == 5
SH_UTF16_T == 6
SH_JSON_T == 7
SH_XML_T == 8
SH_STRUCT_T == 9

ShareErrorTable ==
    << "success", "retry", "no items on queue", "depth limit reached",
       "invalid argument", "not enough memory to satisfy request",
       "permission error", "existence error", "invalid state",
       "problem with path name", "required operation not supported",
       "system error" >>

ShareErrorTextShifted(status) ==
    IF status + 2 \in 1..Len(ShareErrorTable)
    THEN ShareErrorTable[status + 2] ELSE "IndexError"

\* ShareError.text[status]
ShareErrorText(status) ==
    IF status + 1 \in 1..Len(ShareErrorTable)
    THEN ShareErrorTable[status + 1] ELSE "IndexError"

SQModeIsValid(m) == m >= SQ_IMMUTABLE /\ m <= SQ_READWRITE

SHTypeIsValid(t) == t >= SH_VECTOR_T /\ t <= SH_STRUCT_T

CanRead(m) == m = SQ_READ_ONLY \/ m = SQ_READWRITE

CanWrite(m) == m = SQ_WRITE_ONLY \/ m = SQ_READWRITE


---------------------------------------------------------------------------
(* Python values handed to the wrapper.  A value is abstracted to its      *)
(* type (kind), its len() where it has one (for numbers: the width in      *)
(* bytes it needs), whether its characters are all ASCII, and an id that   *)
(* stands for its content.  An element of the list given to addv is either *)
(* a bare value (tup = FALSE) or a tuple of tlen elements whose first is   *)
(* tag (-1: not an int) and whose second is val.                           *)

PyVal(k, n, a, i) == [kind |-> k, n |-> n, ascii |-> a, id |-> i]

Bare(v) == [tup |-> FALSE, tlen |-> 0, tag |-> -1, val |-> v]

Pair(t, v) == [tup |-> TRUE, tlen |-> 2, tag |-> t, val |-> v]

Tuple(l, t, v) == [tup |-> TRUE, tlen |-> l, tag |-> t, val |-> v]

Min(S) == CHOOSE x \in S : \A y \in S : x <= y

\* '__len__' in dir(data)
HasLen(v) == v.kind \in {"str", "unicode", "list"}

\* ffi.new('char[]', data) accepts a byte string or a list of characters
CharInit(v) == v.kind \in {"str", "list"}

\* data.encode() under the default (ascii) codec
CanEncode(v) == v.kind \in {"str", "unicode"}

VecRaise(e) == [st |-> e, type |-> -1, len |-> 0, id |-> 0, ascii |-> TRUE]

VecOk(t, l, v) == [st |-> "ok", type |-> t, len |-> l, id |-> v.id, ascii |-> v.ascii]

\* vector[i].len = len(data); buffers.append(ffi.new('char[]', data))
CharBuf(t, v) ==
    IF ~HasLen(v) \/ ~CharInit(v) THEN VecRaise("TypeError") ELSE VecOk(t, v.n, v)

\* data = data.encode(); vector[i].len = len(data); ffi.new('char[]', data)
EncodedBuf(t, v) ==
    IF ~CanEncode(v) THEN VecRaise("AttributeError")
    ELSE IF ~v.ascii THEN VecRaise("UnicodeError")
    ELSE VecOk(t, v.n, v)

\* one iteration of the loop of SharedQueue.__to_vector
ToVectorElem(it) ==
    LET data == it.val
        bare(k) == ~it.tup /\ data.kind = k
        tagged(t) == it.tup /\ it.tag = t
    IN  IF it.tup /\ it.tlen = 0 THEN VecRaise("IndexError")
        ELSE IF it.tup /\ (~SHTypeIsValid(it.tag) \/ it.tlen # 2)
        THEN VecRaise("invalid argument")
        ELSE IF bare("int") \/ (tagged(SH_INTEGER_T) /\ data.kind = "int")
        THEN IF data.n <= 4 THEN VecOk(SH_INTEGER_T, 4, data)
             ELSE VecRaise("OverflowError")
        ELSE IF bare("long") \/ (tagged(SH_INTEGER_T) /\ data.kind = "long")
        THEN VecOk(SH_INTEGER_T, 8, data)
        ELSE IF bare("float") \/ tagged(SH_FLOAT_T)
        THEN IF data.kind \in {"int", "long", "float"}
             THEN VecOk(SH_FLOAT_T, 8, data) ELSE VecRaise("TypeError")
        ELSE IF bare("str") \/ tagged(SH_ASCII_T)
        THEN CharBuf(SH_ASCII_T, data)
        ELSE IF tagged(SH_XML_T)
        THEN IF data.kind = "unicode"
             THEN IF data.ascii THEN VecOk(SH_XML_T, data.n, data)
                  ELSE VecRaise("UnicodeError")
             ELSE CharBuf(SH_XML_T, data)
        ELSE IF bare("unicode") \/ tagged(SH_UTF8_T)
        THEN EncodedBuf(SH_UTF8_T, data)
        ELSE IF tagged(SH_JSON_T)
        THEN EncodedBuf(SH_JSON_T, data)
        ELSE IF tagged(SH_STRM_T)
        THEN CharBuf(SH_STRM_T, data)
        ELSE IF HasLen(data)
        THEN CharBuf(SH_STRM_T, data)
        ELSE VecRaise("invalid argument")

VecElem(r) == [type |-> r.type, len |-> r.len, id |-> r.id, ascii |-> r.ascii]

\* SharedQueue.__to_vector: the first element that raises ends the loop
ToVector(items) ==
    LET r == [i \in 1..Len(items) |-> ToVectorElem(items[i])]
        bad == {i \in 1..Len(items) : r[i].st # "ok"}
    IN  IF bad = {} THEN [st |-> "ok", vec |-> [i \in 1..Len(items) |-> VecElem(r[i])]]
        ELSE [st |-> r[Min(bad)].st, vec |-> <<>>]

ListRaise(e) == [st |-> e, tag |-> -1, val |-> PyVal("none", 0, TRUE, 0)]

ListOk(t, k, e) == [st |-> "ok", tag |-> t, val |-> PyVal(k, e.len, e.ascii, e.id)]

\* one iteration of the loop of SharedQueue.__to_list
ToListElem(e) ==
    IF e.type = SH_INTEGER_T
    THEN IF e.len = 4 THEN ListOk(-1, "int", e) ELSE ListOk(-1, "long", e)
    ELSE IF e.type = SH_FLOAT_T
    THEN IF e.len = 8 THEN ListOk(-1, "float", e)
         ELSE ListRaise("incompatible float type")
    ELSE IF e.type = SH_ASCII_T THEN ListOk(-1, "str", e)
    ELSE IF e.type = SH_STRM_T THEN ListOk(-1, "str", e)
    ELSE IF e.type = SH_XML_T THEN ListOk(SH_XML_T, "str", e)
    ELSE IF e.type = SH_UTF8_T THEN ListOk(-1, "unicode", e)
    ELSE IF e.type = SH_JSON_T THEN ListOk(SH_JSON_T, "unicode", e)
    ELSE IF e.type = SH_UTF16_T THEN ListOk(-1, "unicode", e)
    ELSE ListRaise("incompatible data type")

ListElem(r) == [tag |-> r.tag, val |-> r.val]

\* SharedQueue.__to_list
ToList(vec) ==
    LET r == [i \in 1..Len(vec) |-> ToListElem(vec[i])]
        bad == {i \in 1..Len(vec) : r[i].st # "ok"}
    IN  IF bad = {} THEN [st |-> "ok", list |-> [i \in 1..Len(vec) |-> ListElem(r[i])]]
        ELSE [st |-> r[Min(bad)].st, list |-> <<>>]

AddArgsShort(data) ==
    IF data.kind \notin {"str", "unicode"}
    THEN [st |-> "incompatible data type", vec |-> <<>>]
    ELSE IF ~data.ascii THEN [st |-> "UnicodeError", vec |-> <<>>]
    ELSE [st |-> "ok",
          vec |-> << [type |-> SH_STRM_T, len |-> data.n + 1, id |-> data.id,
                      ascii |-> data.ascii] >>]

\* SharedQueue.add / add_wait up to the core call: the type test,
\* data.encode(), and the (value, length) handed to the core
AddArgs(data) ==
    IF data.kind \notin {"str", "unicode"}
    THEN [st |-> "incompatible data type", vec |-> <<>>]
    ELSE IF ~data.ascii THEN [st |-> "UnicodeError", vec |-> <<>>]
    ELSE [st |-> "ok",
          vec |-> << [type |-> SH_STRM_T, len |-> data.n, id |-> data.id,
                      ascii |-> data.ascii] >>]

RemoveResultNoEmpty(status, vec) ==
    IF status # SH_OK
    THEN [exc |-> ShareErrorText(status), ret |-> <<>>]
    ELSE LET l == ToList(vec)
         IN  IF l.st = "ok" THEN [exc |-> "", ret |-> l.list]
             ELSE [exc |-> l.st, ret |-> <<>>]

\* SharedQueue.remove / remove_wait / remove_timedwait after the core call:
\* [] for SH_ERR_EMPTY, ShareException for any other non-zero status,
\* __to_list(item) otherwise
RemoveResult(status, vec) ==
    IF status = SH_ERR_EMPTY THEN [exc |-> "", ret |-> <<>>]
    ELSE IF status # SH_OK
    THEN [exc |-> ShareErrorText(status), ret |-> <<>>]
    ELSE LET l == ToList(vec)
         IN  IF l.st = "ok" THEN [exc |-> "", ret |-> l.list]
             ELSE [exc |-> l.st, ret |-> <<>>]

---------------------------------------------------------------------------
(* The core queue engine (libshr), reached through lib.shr_q_*.            *)

Modes == {SQ_READ_ONLY, SQ_WRITE_ONLY, SQ_READWRITE}

\* the values add and add_wait are called with
StrA == PyVal("str", 1, TRUE, 1)
StrB == PyVal("str", 1, TRUE, 2)
AddData == {StrA, PyVal("str", 0, TRUE, 0), PyVal("int", 4, TRUE, 7)}
WaitData == {StrA}

\* the lists addv is called with in the queue specification
AddVData == { << Pair(SH_INTEGER_T, PyVal("int", 4, TRUE, 4)),
                 Pair(SH_JSON_T, PyVal("unicode", 1, TRUE, 5)) >>,
              << Pair(10, StrA) >> }

countOffByOne == Len(queue) + 1

\* count(): int(lib.shr_q_count(self.pq[0]))
count == Len(queue)

AtLimit == Len(queue) >= maxDepth

\* status of shr_q_add / shr_q_addv on a handle of mode m: the arguments
\* (length greater than 0 for add, vcnt >= 1 for addv), the handle's
\* capability, then the depth limit, which adaptive LIFO lifts
CoreAddStatus(m, vec, minLen) ==
    IF vec = <<>> \/ (\E i \in 1..Len(vec) : vec[i].len < minLen) THEN SH_ERR_ARG
    ELSE IF ~CanWrite(m) THEN SH_ERR_STATE
    ELSE IF AtLimit /\ ~lifo THEN SH_ERR_LIMIT
    ELSE SH_OK

\* where an accepted item goes: the tail, or, at the depth limit (adaptive
\* LIFO), the position that is removed next
Enqueued(item) == IF AtLimit THEN <<item>> \o queue ELSE Append(queue, item)

\* events raised by an accepted add
AddEvents ==
    (IF Len(queue) = 0
     THEN (IF ~everAdded THEN <<EV_INIT>> ELSE <<>>) \o <<EV_NONEMPTY>>
     ELSE <<>>)
    \o (IF Len(queue) + 1 = maxDepth THEN <<EV_LIMIT>> ELSE <<>>)

\* events raised when the first k items leave the queue
RemoveEvents(k) == IF k > 0 /\ Len(queue) = k THEN <<EV_EMPTY>> ELSE <<>>

\* status of shr_q_remove* on a handle of mode m
CoreRemoveStatus(m) ==
    IF ~CanRead(m) THEN SH_ERR_STATE
    ELSE IF queue = <<>> THEN SH_ERR_EMPTY
    ELSE SH_OK

Outcome(op, status, exc, ret, seq) ==
    [op |-> op, status |-> status, exc |-> exc, ret |-> ret, seq |-> seq]

NoArgs == <<>>

Hist == <<lifoEver, cleaned, creates>>

\* the core accepts the item: it joins the queue and the events are raised
Accept(op, arg, vec) ==
    /\ nAdded < MaxAdds
    /\ queue' = Enqueued([seq |-> nAdded + 1, scalar |-> (op # "addv"), arg |-> arg,
                          vec |-> vec, atLimit |-> AtLimit])
    /\ nAdded' = nAdded + 1
    /\ everAdded' = TRUE
    /\ fired' = AddEvents
    /\ last' = Outcome(op, SH_OK, "", <<>>, nAdded + 1)

\* the call ends without touching the queue
Refuse(op, status, exc) ==
    /\ last' = Outcome(op, status, exc, <<>>, 0)
    /\ fired' = <<>>
    /\ UNCHANGED <<queue, nAdded, everAdded>>

\* the core hands the head of the queue to the caller
TakeHead(op) ==
    LET r == RemoveResult(SH_OK, Head(queue).vec)
    IN  /\ queue' = Tail(queue)
        /\ nRemoved' = nRemoved + 1
        /\ fired' = RemoveEvents(1)
        /\ last' = Outcome(op, SH_OK, r.exc, r.ret, Head(queue).seq)

\* the core returns an item that carries only a status
NoItem(op, status) ==
    LET r == RemoveResult(status, <<>>)
    IN  /\ last' = Outcome(op, status, r.exc, r.ret, 0)
        /\ fired' = <<>>
        /\ UNCHANGED <<queue, nRemoved>>

\* the SharedQueue object of a process: pq[0] is non-NULL while the handle
\* is attached; buff[0] is NULL, allocated by a core remove, or freed
HandleObj(open, buff, frees) == [open |-> open, buff |-> buff, frees |-> frees]

\* the critical section is free and every process is alive and outside it
LockFree ==
    [owner |-> "none", st |-> [p \in Procs |-> "idle"], recovered |-> FALSE]

\* the state the operations of subscription, handle lifetime, locking and
\* expiry work on
Ext == <<subs, handle, lock, limit, discard, now, stamp>>

\* that state after construction: nothing subscribed, no scratch buffer, no
\* time limit, discard off
ExtInit(open) ==
    /\ subs = [p \in Procs |-> {}]
    /\ handle = [p \in Procs |-> HandleObj(open, "null", 0)]
    /\ lock = LockFree
    /\ limit = 0
    /\ discard = FALSE
    /\ now = 0
    /\ stamp = [i \in 1..MaxAdds |-> 0]

TypeOK ==
    /\ exists \in BOOLEAN /\ lifo \in BOOLEAN /\ everAdded \in BOOLEAN
    /\ maxDepth \in Nat /\ nAdded \in 0..MaxAdds /\ nRemoved \in 0..MaxAdds

InitQueue ==
    /\ exists = TRUE
    /\ maxDepth \in 1..MaxCreateDepth
    /\ queue = <<>>
    /\ lifo = FALSE
    /\ everAdded = FALSE
    /\ fired = <<>>
    /\ nAdded = 0
    /\ nRemoved = 0
    /\ lifoEver = FALSE
    /\ cleaned = FALSE
    /\ creates = 1
    /\ pc = [p \in Procs |-> "ready"]
    /\ pend = [p \in Procs |-> NoArgs]
    /\ last = Outcome("init", SH_OK, "", <<>>, 0)
    /\ ExtInit(TRUE)

\* every process holds a read-write handle of a freshly created queue
Init == InitQueue /\ mode = [p \in Procs |-> SQ_READWRITE]

\* the handles were opened with any of the modes that can add or remove
WaitInit == InitQueue /\ mode \in [Procs -> Modes]

\* SharedQueue.add
Add(p, data) ==
    /\ pc[p] = "ready"
    /\ LET a == AddArgs(data)
           s == CoreAddStatus(mode[p], a.vec, 1)
       IN  IF a.st # "ok" THEN Refuse("add", -1, a.st)
           ELSE IF s # SH_OK THEN Refuse("add", s, ShareErrorText(s))
           ELSE Accept("add", <<Bare(data)>>, a.vec)
    /\ UNCHANGED <<exists, maxDepth, lifo, nRemoved, Hist, pc, mode, pend>>

\* SharedQueue.add_wait: as add, but the core blocks at the depth limit
AddWait(p, data) ==
    /\ pc[p] = "ready"
    /\ LET a == AddArgs(data)
           s == CoreAddStatus(mode[p], a.vec, 1)
       IN  IF a.st # "ok"
           THEN Refuse("add_wait", -1, a.st) /\ UNCHANGED <<pc, pend>>
           ELSE IF s = SH_ERR_LIMIT
           THEN /\ pc' = [pc EXCEPT ![p] = "aw_blocked"]
                /\ pend' = [pend EXCEPT ![p] = <<Bare(data)>>]
                /\ fired' = <<>>
                /\ UNCHANGED <<queue, nAdded, everAdded, last>>
           ELSE IF s # SH_OK
           THEN Refuse("add_wait", s, ShareErrorText(s)) /\ UNCHANGED <<pc, pend>>
           ELSE Accept("add_wait", <<Bare(data)>>, a.vec) /\ UNCHANGED <<pc, pend>>
    /\ UNCHANGED <<exists, maxDepth, lifo, nRemoved, Hist, mode>>

\* a remove has made room: the blocked add_wait completes
AddWaitResume(p) ==
    /\ pc[p] = "aw_blocked"
    /\ ~AtLimit
    /\ Accept("add_wait", pend[p], AddArgs(pend[p][1].val).vec)
    /\ pc' = [pc EXCEPT ![p] = "ready"]
    /\ pend' = [pend EXCEPT ![p] = NoArgs]
    /\ UNCHANGED <<exists, maxDepth, lifo, nRemoved, Hist, mode>>

\* SharedQueue.addv
AddV(p, items) ==
    /\ pc[p] = "ready"
    /\ LET v == ToVector(items)
           s == CoreAddStatus(mode[p], v.vec, 0)
       IN  IF v.st # "ok" THEN Refuse("addv", -1, v.st)
           ELSE IF s # SH_OK THEN Refuse("addv", s, ShareErrorText(s))
           ELSE Accept("addv", items, v.vec)
    /\ UNCHANGED <<exists, maxDepth, lifo, nRemoved, Hist, pc, mode, pend>>

\* SharedQueue.remove
Remove(p) ==
    /\ pc[p] = "ready"
    /\ LET s == CoreRemoveStatus(mode[p])
       IN  IF s = SH_OK THEN TakeHead("remove") ELSE NoItem("remove", s)
    /\ UNCHANGED <<exists, maxDepth, lifo, everAdded, nAdded, Hist, pc, mode, pend>>

\* SharedQueue.remove_wait: the core blocks while the queue is empty
RemoveWait(p) ==
    /\ pc[p] = "ready"
    /\ LET s == CoreRemoveStatus(mode[p])
       IN  IF s = SH_OK THEN TakeHead("remove_wait") /\ UNCHANGED pc
           ELSE IF s = SH_ERR_EMPTY
           THEN /\ pc' = [pc EXCEPT ![p] = "rw_blocked"]
                /\ fired' = <<>>
                /\ UNCHANGED <<queue, nRemoved, last>>
           ELSE NoItem("remove_wait", s) /\ UNCHANGED pc
    /\ UNCHANGED <<exists, maxDepth, lifo, everAdded, nAdded, Hist, mode, pend>>

WaitReturnAlways(p) ==
    /\ pc[p] = "rw_blocked"
    /\ IF queue # <<>> THEN TakeHead("remove_wait")
       ELSE NoItem("remove_wait", SH_ERR_EMPTY)
    /\ pc' = [pc EXCEPT ![p] = "ready"]
    /\ UNCHANGED <<exists, maxDepth, lifo, everAdded, nAdded, Hist, mode, pend>>

\* an add has woken the blocked remove_wait: it takes the head and returns
RemoveWaitReturn(p) ==
    /\ pc[p] = "rw_blocked"
    /\ queue # <<>>
    /\ TakeHead("remove_wait")
    /\ pc' = [pc EXCEPT ![p] = "ready"]
    /\ UNCHANGED <<exists, maxDepth, lifo, everAdded, nAdded, Hist, mode, pend>>

\* SharedQueue.remove_timedwait: the core blocks, for at most the duration
RemoveTimedWait(p) ==
    /\ pc[p] = "ready"
    /\ LET s == CoreRemoveStatus(mode[p])
       IN  IF s = SH_OK THEN TakeHead("remove_timedwait") /\ UNCHANGED pc
           ELSE IF s = SH_ERR_EMPTY
           THEN /\ pc' = [pc EXCEPT ![p] = "rtw_blocked"]
                /\ fired' = <<>>
                /\ UNCHANGED <<queue, nRemoved, last>>
           ELSE NoItem("remove_timedwait", s) /\ UNCHANGED pc
    /\ UNCHANGED <<exists, maxDepth, lifo, everAdded, nAdded, Hist, mode, pend>>

\* an add has woken the blocked remove_timedwait before its deadline
RemoveTimedWaitReturn(p) ==
    /\ pc[p] = "rtw_blocked"
    /\ queue # <<>>
    /\ TakeHead("remove_timedwait")
    /\ pc' = [pc EXCEPT ![p] = "ready"]
    /\ UNCHANGED <<exists, maxDepth, lifo, everAdded, nAdded, Hist, mode, pend>>

\* the deadline passes with the queue still empty
RemoveTimedWaitTimeout(p) ==
    /\ pc[p] = "rtw_blocked"
    /\ queue = <<>>
    /\ NoItem("remove_timedwait", SH_ERR_EMPTY)
    /\ pc' = [pc EXCEPT ![p] = "ready"]
    /\ UNCHANGED <<exists, maxDepth, lifo, everAdded, nAdded, Hist, mode, pend>>

LimitLifoDropped(p, flag) ==
    /\ pc[p] = "ready"
    /\ lifo' = FALSE
    /\ lifoEver' = lifoEver
    /\ last' = Outcome("limit_lifo", SH_OK, "", <<>>, 0)
    /\ fired' = <<>>
    /\ UNCHANGED <<exists, maxDepth, queue, everAdded, nAdded, nRemoved,
                   cleaned, creates, pc, mode, pend>>

\* SharedQueue.limit_lifo
LimitLifo(p, flag) ==
    /\ pc[p] = "ready"
    /\ lifo' = flag
    /\ lifoEver' = (lifoEver \/ flag)
    /\ last' = Outcome("limit_lifo", SH_OK, "", <<>>, 0)
    /\ fired' = <<>>
    /\ UNCHANGED <<exists, maxDepth, queue, everAdded, nAdded, nRemoved,
                   cleaned, creates, pc, mode, pend>>

\* SharedQueue.clean: the k items at the head that have exceeded the time
\* limit leave the queue
Clean(p, k) ==
    /\ pc[p] = "ready"
    /\ k \in 0..Len(queue)
    /\ queue' = SubSeq(queue, k + 1, Len(queue))
    /\ cleaned' = (cleaned \/ k > 0)
    /\ fired' = RemoveEvents(k)
    /\ last' = Outcome("clean", SH_OK, "", <<>>, 0)
    /\ UNCHANGED <<exists, maxDepth, lifo, everAdded, nAdded, nRemoved,
                   lifoEver, creates, pc, mode, pend>>

Next ==
    /\ \E p \in Procs :
          \/ \E d \in AddData : Add(p, d)
          \/ \E d \in WaitData : AddWait(p, d)
          \/ AddWaitResume(p)
          \/ \E v \in AddVData : AddV(p, v)
          \/ Remove(p)
          \/ RemoveWait(p)
          \/ RemoveWaitReturn(p)
          \/ RemoveTimedWait(p)
          \/ RemoveTimedWaitReturn(p)
          \/ RemoveTimedWaitTimeout(p)
          \/ \E f \in BOOLEAN : LimitLifo(p, f)
          \/ \E k \in 0..MaxAdds : Clean(p, k)
    /\ UNCHANGED Ext

Spec == Init /\ [][Next]_vars

WaitNext ==
    /\ \E p \in Procs :
          \/ \E d \in {StrA, StrB} : Add(p, d)
          \/ Remove(p)
          \/ RemoveWait(p)
          \/ RemoveWaitReturn(p)
          \/ RemoveTimedWait(p)
          \/ RemoveTimedWaitReturn(p)
          \/ RemoveTimedWaitTimeout(p)
    /\ UNCHANGED Ext

\* a caller blocked in the core is scheduled once the item it waits for is
\* there, and the deadline of a timed wait passes
WaitSpec ==
    /\ WaitInit
    /\ [][WaitNext]_vars
    /\ \A p \in Procs : WF_vars(RemoveWaitReturn(p) /\ UNCHANGED Ext)
    /\ \A p \in Procs : WF_vars(RemoveTimedWaitReturn(p) /\ UNCHANGED Ext)
    /\ \A p \in Procs : WF_vars(RemoveTimedWaitTimeout(p) /\ UNCHANGED Ext)

---------------------------------------------------------------------------
(* Properties of the queue operations                                      *)

\* what remove returns for an item that add(data) put on the queue
BytesOf(data) == << [tag |-> -1, val |-> PyVal("str", data.n, data.ascii, data.id)] >>

\* C1: in FIFO mode (adaptive LIFO never enabled, nothing expired) the
\* k-th successful remove returns the item of the k-th successful add, and
\* for an item put there by add or add_wait, the bytes that were passed
C1_FifoOrder ==
    [][ (~lifoEver' /\ ~cleaned' /\ nRemoved' = nRemoved + 1) =>
            /\ last'.seq = nRemoved'
            /\ Head(queue).seq = nRemoved'
            /\ last'.exc = ""
            /\ (Head(queue).scalar =>
                    last'.ret = BytesOf(Head(queue).arg[1].val)) ]_vars

C1_Witness ==
    /\ ~lifoEver /\ ~cleaned /\ nRemoved = 2 /\ last.seq = 2
    /\ last.op = "remove" /\ last.ret = BytesOf(StrA)

C3_AddAtLimit ==
    [][ (AtLimit /\ ~lifo /\ \E p \in Procs : CanWrite(mode[p]) /\
            Add(p, StrA)) =>
            /\ last'.status = SH_ERR_LIMIT
            /\ last'.exc = "depth limit reached"
            /\ queue' = queue
            /\ count' = count ]_vars

C3_Witness ==
    /\ last.op = "add" /\ last.status = SH_ERR_LIMIT
    /\ last.exc = "depth limit reached" /\ count = maxDepth /\ ~lifo

\* an item added at the limit stands before every item queued before it;
\* the other items stand in insertion order
LifoOrdered(q) ==
    /\ \A i, j \in 1..Len(q) :
          (q[i].atLimit /\ q[j].seq < q[i].seq) => i < j
    /\ \A i, j \in 1..Len(q) :
          (i < j /\ ~q[i].atLimit /\ ~q[j].atLimit) => q[i].seq < q[j].seq

\* C4: once limit_lifo(True) has been called, an add at the depth limit is
\* accepted and is the next item removed, before every item already
\* queued; those are removed afterwards in their insertion order
C4_AdaptiveLifo ==
    [][ /\ (\E p \in Procs : LimitLifo(p, TRUE)) => lifo'
        /\ (AtLimit /\ lifo /\ nAdded < MaxAdds /\
              \E p \in Procs : AddWait(p, StrA)) =>
                (Len(queue') = Len(queue) + 1 /\ Tail(queue') = queue
                 /\ Head(queue').seq = nAdded')
        /\ LifoOrdered(queue')
        /\ (nRemoved' = nRemoved + 1 =>
              (last'.seq = Head(queue).seq /\ queue' = Tail(queue))) ]_vars

C4_Witness ==
    /\ maxDepth = 2 /\ lifo /\ Len(queue) = 2
    /\ queue[1].seq = 1 /\ queue[2].seq = 2
    /\ last.op = "remove" /\ last.seq = 3

SoleReader(p) ==
    CanRead(mode[p]) /\ \A q \in Procs \ {p} : ~CanRead(mode[q])

RemoveOps == {"remove", "remove_wait", "remove_timedwait"}

\* C6: a remove_timedwait whose deadline passes on the empty queue returns
\* the empty list and raises nothing; a remove variant raises only for a
\* status that is neither success nor 'no items on queue'; and a blocked
\* remove_timedwait always ends
C6_TimedWaitEmpty ==
    /\ [][ \A p \in Procs :
             (pc[p] = "rtw_blocked" /\ pc'[p] = "ready" /\ queue = <<>>) =>
                /\ last'.op = "remove_timedwait"
                /\ last'.status = SH_ERR_EMPTY
                /\ last'.exc = ""
                /\ last'.ret = <<>> ]_vars
    /\ [][ (last'.op \in RemoveOps /\ last'.exc # "") =>
                last'.status \notin {SH_OK, SH_ERR_EMPTY} ]_vars
    /\ \A p \in Procs : (pc[p] = "rtw_blocked") ~> (pc[p] = "ready")

C6_Witness ==
    /\ last.op = "remove_timedwait" /\ last.status = SH_ERR_EMPTY
    /\ last.ret = <<>> /\ last.exc = "" /\ queue = <<>>
    /\ \A p \in Procs : pc[p] = "ready"

Occurrences(e, s) == Cardinality({i \in 1..Len(s) : s[i] = e})

\* C9: an operation raises EMPTY exactly once when it takes the depth to 0
\* and NONEMPTY exactly once when it takes the depth from 0 to 1, and
\* raises neither otherwise
C9_EmptyNonEmptyEvents ==
    [][ /\ Occurrences(EV_EMPTY, fired') =
              (IF Len(queue) > 0 /\ Len(queue') = 0 THEN 1 ELSE 0)
        /\ Occurrences(EV_NONEMPTY, fired') =
              (IF Len(queue) = 0 /\ Len(queue') = 1 THEN 1 ELSE 0) ]_vars

C9_Witness ==
    /\ fired = <<EV_EMPTY>> /\ last.op = "remove" /\ queue = <<>>
    /\ nAdded = 2 /\ nRemoved = 2

---------------------------------------------------------------------------
(* Construction: SharedQueue.__init__ run by several processes for one     *)
(* name.  The probe lib.shr_q_is_valid(name) and the shr_q_open or         *)
(* shr_q_create that follows it are separate calls into the core, so the   *)
(* other processes run between them.                                       *)

CtorModes == {SQ_READ_ONLY, SQ_READWRITE, SQ_READWRITE + 1}

CtorArgs(size, m, valid, exc) ==
    [size |-> size, mode |-> m, valid |-> valid, exc |-> exc]

CtorInit ==
    /\ exists = FALSE
    /\ maxDepth = 0
    /\ queue = <<>>
    /\ lifo = FALSE
    /\ everAdded = FALSE
    /\ fired = <<>>
    /\ nAdded = 0
    /\ nRemoved = 0
    /\ lifoEver = FALSE
    /\ cleaned = FALSE
    /\ creates = 0
    /\ pc = [p \in Procs |-> "new"]
    /\ mode = [p \in Procs |-> SQ_IMMUTABLE]
    /\ pend = [p \in Procs |-> NoArgs]
    /\ last = Outcome("none", SH_OK, "", <<>>, 0)
    /\ ExtInit(FALSE)

\* __init__ up to the test of line 161: the checks of mode and size, then
\* the probe lib.shr_q_is_valid(name)
CtorProbe(p, m, size) ==
    /\ pc[p] = "new"
    /\ IF ~SQModeIsValid(m)
       THEN /\ pc' = [pc EXCEPT ![p] = "failed"]
            /\ pend' = [pend EXCEPT ![p] =
                           CtorArgs(size, m, FALSE, ShareErrorText(SH_ERR_ARG))]
       ELSE /\ pc' = [pc EXCEPT ![p] = "ctor"]
            /\ pend' = [pend EXCEPT ![p] = CtorArgs(size, m, exists, "")]
    /\ UNCHANGED <<exists, maxDepth, queue, lifo, everAdded, fired, nAdded,
                   nRemoved, Hist, mode, last>>

\* status of shr_q_open
CoreOpenStatus == IF exists THEN SH_OK ELSE SH_ERR_EXIST

\* status of shr_q_create
CoreCreateStatus == IF exists THEN SH_ERR_EXIST ELSE SH_OK

CtorCallOpensExisting(p) ==
    /\ pc[p] = "ctor"
    /\ LET a == pend[p]
           open == a.valid
           s == IF open THEN CoreOpenStatus ELSE CoreCreateStatus
       IN  /\ IF s # SH_OK
              THEN /\ pc' = [pc EXCEPT ![p] = "failed"]
                   /\ pend' = [pend EXCEPT ![p] =
                                 CtorArgs(a.size, a.mode, a.valid, ShareErrorText(s))]
                   /\ UNCHANGED <<exists, maxDepth, creates, mode>>
              ELSE /\ pc' = [pc EXCEPT ![p] = "ready"]
                   /\ mode' = [mode EXCEPT ![p] = a.mode]
                   /\ pend' = pend
                   /\ IF open THEN UNCHANGED <<exists, maxDepth, creates>>
                      ELSE /\ exists' = TRUE
                           /\ maxDepth' = (IF a.size = 0 THEN SysMaxDepth ELSE a.size)
                           /\ creates' = creates + 1
    /\ UNCHANGED <<queue, lifo, everAdded, fired, nAdded, nRemoved, lifoEver,
                   cleaned, last>>

\* __init__ from line 161 on: shr_q_open when the probe found the queue
\* and size is 0, shr_q_create otherwise; a non-zero status is raised
CtorCall(p) ==
    /\ pc[p] = "ctor"
    /\ LET a == pend[p]
           open == a.valid /\ a.size = 0
           s == IF open THEN CoreOpenStatus ELSE CoreCreateStatus
       IN  /\ IF s # SH_OK
              THEN /\ pc' = [pc EXCEPT ![p] = "failed"]
                   /\ pend' = [pend EXCEPT ![p] =
                                 CtorArgs(a.size, a.mode, a.valid, ShareErrorText(s))]
                   /\ UNCHANGED <<exists, maxDepth, creates, mode>>
              ELSE /\ pc' = [pc EXCEPT ![p] = "ready"]
                   /\ mode' = [mode EXCEPT ![p] = a.mode]
                   /\ pend' = pend
                   /\ IF open THEN UNCHANGED <<exists, maxDepth, creates>>
                      ELSE /\ exists' = TRUE
                           /\ maxDepth' = (IF a.size = 0 THEN SysMaxDepth ELSE a.size)
                           /\ creates' = creates + 1
    /\ UNCHANGED <<queue, lifo, everAdded, fired, nAdded, nRemoved, lifoEver,
                   cleaned, last>>

CtorNext ==
    /\ \E p \in Procs :
          \/ \E m \in CtorModes, size \in 0..MaxCreateDepth : CtorProbe(p, m, size)
          \/ CtorCall(p)
    /\ UNCHANGED Ext

CtorSpec == CtorInit /\ [][CtorNext]_vars

---------------------------------------------------------------------------
(* The item codec: addv applied to a list drawn from CodecVectors, on a    *)
(* queue that is empty or holds one item, followed by removes.             *)

IntV == PyVal("int", 4, TRUE, 4)        \* an int that fits 32 bits
BigV == PyVal("int", 8, TRUE, 5)        \* an int that does not
LongV == PyVal("long", 8, TRUE, 6)
FloatV == PyVal("float", 8, TRUE, 7)
StrV == PyVal("str", 2, TRUE, 8)        \* 'ab'
BinV == PyVal("str", 2, FALSE, 9)       \* a byte string with bytes above 127
UniV == PyVal("unicode", 1, TRUE, 10)   \* u'a'
UniNV == PyVal("unicode", 1, FALSE, 11) \* a unicode string outside ASCII
ObjV == PyVal("object", 0, TRUE, 12)    \* a value with neither len nor encode

GoodPairs ==
    { Pair(SH_STRM_T, BinV), Pair(SH_INTEGER_T, IntV), Pair(SH_INTEGER_T, LongV),
      Pair(SH_FLOAT_T, FloatV), Pair(SH_ASCII_T, StrV), Pair(SH_UTF8_T, UniV),
      Pair(SH_UTF16_T, BinV), Pair(SH_JSON_T, UniV), Pair(SH_XML_T, StrV),
      Pair(SH_STRUCT_T, BinV) }

BadItems ==
    { Pair(SH_INTEGER_T, StrV), Pair(SH_FLOAT_T, StrV), Pair(SH_ASCII_T, IntV),
      Pair(SH_STRUCT_T, ObjV), Pair(SH_STRUCT_T + 1, StrV), Pair(-1, StrV),
      Tuple(0, -1, ObjV), Tuple(1, SH_ASCII_T, ObjV), Tuple(3, SH_ASCII_T, StrV) }

OtherItems ==
    { Bare(IntV), Bare(LongV), Bare(FloatV), Bare(StrV), Bare(UniV), Bare(ObjV),
      Pair(SH_INTEGER_T, BigV), Pair(SH_UTF8_T, UniNV), Pair(SH_VECTOR_T, StrV) }

CodecItems == GoodPairs \cup BadItems \cup OtherItems

CodecVectors == UNION { [1..n -> CodecItems] : n \in 0..MaxVec }

\* the values that fit tag t
WellFormed(t, v) ==
    \/ t = SH_STRM_T /\ v.kind = "str"
    \/ t = SH_INTEGER_T /\ v.kind \in {"int", "long"}
    \/ t = SH_FLOAT_T /\ v.kind = "float"
    \/ t = SH_ASCII_T /\ v.kind = "str" /\ v.ascii
    \/ t = SH_UTF8_T /\ v.kind = "unicode"
    \/ t = SH_UTF16_T /\ v.kind = "str"
    \/ t = SH_JSON_T /\ v.kind = "unicode"
    \/ t = SH_XML_T /\ v.kind \in {"str", "unicode"}
    \/ t = SH_STRUCT_T /\ v.kind = "str"

\* an invalid type tag, a tuple that is not a pair, or a value that does not
\* fit its tag
Malformed(it) ==
    it.tup /\ (~SHTypeIsValid(it.tag) \/ it.tlen # 2
               \/ (it.tag # SH_VECTOR_T /\ ~WellFormed(it.tag, it.val)))

HasMalformed(items) == \E i \in 1..Len(items) : Malformed(items[i])

OneItem == [seq |-> 1, scalar |-> TRUE, arg |-> <<Bare(StrA)>>,
            vec |-> AddArgs(StrA).vec, atLimit |-> FALSE]

CodecInit ==
    /\ exists = TRUE
    /\ maxDepth = MaxCreateDepth
    /\ queue \in {<<>>, <<OneItem>>}
    /\ lifo = FALSE
    /\ everAdded = (queue # <<>>)
    /\ fired = <<>>
    /\ nAdded = Len(queue)
    /\ nRemoved = 0
    /\ lifoEver = FALSE
    /\ cleaned = FALSE
    /\ creates = 1
    /\ pc = [p \in Procs |-> "ready"]
    /\ mode = [p \in Procs |-> SQ_READWRITE]
    /\ pend \in [Procs -> CodecVectors]
    /\ \A p \in Procs : p # "p1" => pend[p] = <<>>
    /\ last = Outcome("init", SH_OK, "", <<>>, 0)
    /\ ExtInit(TRUE)

\* addv called with the list the process holds
CodecAddV(p) == p = "p1" /\ AddV(p, pend[p])

CodecNext ==
    /\ \E p \in Procs :
          \/ CodecAddV(p)
          \/ Remove(p)
    /\ UNCHANGED Ext

CodecSpec == CodecInit /\ [][CodecNext]_vars

\* C7 as stated: an item that addv([(t, v)]) put on the queue, for a valid
\* tag t and a value v that fits it, comes off the queue with type tag t
\* and the length of v, and __to_list decodes it
C7_TagRoundTrip ==
    [][ (nRemoved' = nRemoved + 1 /\ ~Head(queue).scalar
         /\ Len(Head(queue).arg) = 1 /\ Head(queue).arg[1] \in GoodPairs) =>
            /\ Head(queue).vec[1].type = Head(queue).arg[1].tag
            /\ Head(queue).vec[1].len = Head(queue).arg[1].val.n
            /\ last'.exc = "" ]_vars

\* C8 as stated, with "fails" read as any error raised: addv of a list with
\* a malformed element raises and leaves the depth and the contents of the
\* queue as they were
C8_VectorAllOrNothing ==
    [][ (\E p \in Procs : CodecAddV(p) /\ HasMalformed(pend[p])) =>
            /\ last'.exc # ""
            /\ queue' = queue
            /\ count' = count ]_vars

---------------------------------------------------------------------------
(* Event subscription: subscribe, unsubscribe and is_subscribed on the     *)
(* handles of a queue.                                                     *)

EV_ALL == 0

\* SQEvent.is_valid
SQEventIsValid(e) == e >= EV_ALL /\ e <= EV_NONEMPTY

\* the events the calls are made with: two events and a number that is none
SubEvents == {EV_LIMIT, EV_EMPTY, EV_NONEMPTY + 1}

\* everything of the queue that a call on the subscriptions leaves alone
QueueState == <<exists, maxDepth, queue, lifo, everAdded, nAdded, nRemoved,
                lifoEver, cleaned, creates>>

\* shr_q_subscribe: the event joins the subscription set of the handle
CoreSubscribe(p, e) == [subs EXCEPT ![p] = subs[p] \cup {e}]

\* shr_q_is_subscribed
CoreIsSubscribed(p, e) == e \in subs[p]

\* a call that only reports: op, with the exception it raised or its result
Report(op, status, exc, ret, e) ==
    /\ last' = Outcome(op, status, exc, ret, e)
    /\ fired' = <<>>

\* SharedQueue.subscribe
Subscribe(p, e) ==
    /\ pc[p] = "ready"
    /\ IF ~SQEventIsValid(e)
       THEN /\ Report("subscribe", -1, ShareErrorText(SH_ERR_ARG), <<>>, e)
            /\ subs' = subs
       ELSE /\ subs' = CoreSubscribe(p, e)
            /\ Report("subscribe", SH_OK, "", <<>>, e)
    /\ UNCHANGED <<QueueState, pc, mode, pend, handle, lock, limit, discard,
                   now, stamp>>

\* SharedQueue.unsubscribe: the core function it calls is shr_q_subscribe
Unsubscribe(p, e) ==
    /\ pc[p] = "ready"
    /\ IF ~SQEventIsValid(e)
       THEN /\ Report("unsubscribe", -1, ShareErrorText(SH_ERR_ARG), <<>>, e)
            /\ subs' = subs
       ELSE /\ subs' = CoreSubscribe(p, e)
            /\ Report("unsubscribe", SH_OK, "", <<>>, e)
    /\ UNCHANGED <<QueueState, pc, mode, pend, handle, lock, limit, discard,
                   now, stamp>>

\* SharedQueue.is_subscribed
IsSubscribed(p, e) ==
    /\ pc[p] = "ready"
    /\ IF ~SQEventIsValid(e)
       THEN Report("is_subscribed", -1, ShareErrorText(SH_ERR_ARG), <<>>, e)
       ELSE Report("is_subscribed", SH_OK, "", <<CoreIsSubscribed(p, e)>>, e)
    /\ UNCHANGED <<QueueState, pc, mode, pend, subs, handle, lock, limit,
                   discard, now, stamp>>

SubNext ==
    \E p \in Procs, e \in SubEvents :
        \/ Subscribe(p, e)
        \/ Unsubscribe(p, e)
        \/ IsSubscribed(p, e)

SubSpec == Init /\ [][SubNext]_vars

\* C11 as stated: once unsubscribe(e) has returned for a valid event e, the
\* handle is not subscribed to e, whether or not it was before, and stays so
\* until that handle calls subscribe(e); is_subscribed(e) reports it
C11_UnsubscribeRemoves ==
    [][ \A p \in Procs, e \in SubEvents :
          /\ (Unsubscribe(p, e) /\ last'.exc = "") => e \notin subs'[p]
          /\ (e \notin subs[p] /\ e \in subs'[p]) => Subscribe(p, e)
          /\ (IsSubscribed(p, e) /\ last'.exc = "") =>
                 last'.ret = <<e \in subs[p]>> ]_vars

---------------------------------------------------------------------------
(* Lifetime of a handle: add and remove through it, close and destroy.     *)
(* The core sets pq[0] to NULL when shr_q_close or shr_q_destroy succeeds, *)
(* which is what the wrapper's test of self.pq[0] relies on; it rejects a  *)
(* NULL queue pointer before it looks at any other argument.               *)

\* status of a core call made through the handle of p, before the call's
\* own conditions: a NULL pointer is an invalid argument, a handle whose
\* segment has been destroyed is in an invalid state
CoreHandleStatus(p) ==
    IF ~handle[p].open THEN SH_ERR_ARG
    ELSE IF ~exists THEN SH_ERR_STATE
    ELSE SH_OK

\* statuses shr_q_close can return: releasing the attachment to a segment
\* that another process has destroyed may succeed or be refused
CoreCloseStatuses == IF exists THEN {SH_OK} ELSE {SH_OK, SH_ERR_STATE}

\* status of shr_q_destroy
CoreDestroyStatus == IF exists THEN SH_OK ELSE SH_ERR_STATE

\* 'if self.buff[0]: lib.free(self.buff[0])': the pointer is freed when it
\* is not NULL, and it keeps its value
FreeBuff(h) ==
    IF h.buff = "null" THEN h
    ELSE HandleObj(h.open, "freed", h.frees + 1)

\* the handle once the core has set pq[0] to NULL
Detached(h) == HandleObj(FALSE, h.buff, h.frees)

LifeFrame == <<subs, lock, limit, discard, now, stamp>>

\* SharedQueue.add through a handle that may have been closed
LifeAdd(p, data) ==
    /\ pc[p] = "ready"
    /\ IF CoreHandleStatus(p) = SH_OK
       THEN Add(p, data)
       ELSE /\ Refuse("add", CoreHandleStatus(p), ShareErrorText(CoreHandleStatus(p)))
            /\ UNCHANGED <<exists, maxDepth, lifo, nRemoved, Hist, pc, mode, pend>>
    /\ UNCHANGED <<handle, LifeFrame>>

\* SharedQueue.remove through a handle that may have been closed: the core
\* stages the item it returns in the scratch buffer, which it allocates or
\* resizes through self.buff
LifeRemove(p) ==
    /\ pc[p] = "ready"
    /\ IF CoreHandleStatus(p) = SH_OK
       THEN /\ Remove(p)
            /\ handle' = IF CoreRemoveStatus(mode[p]) = SH_OK
                         THEN [handle EXCEPT ![p].buff = "live"]
                         ELSE handle
       ELSE /\ NoItem("remove", CoreHandleStatus(p))
            /\ UNCHANGED <<exists, maxDepth, lifo, everAdded, nAdded, Hist, pc,
                           mode, pend, handle>>
    /\ UNCHANGED LifeFrame

CloseFreeFirst(p) ==
    /\ pc[p] = "ready"
    /\ IF ~handle[p].open
       THEN /\ Report("close", -1, ShareErrorText(SH_ERR_ARG), <<>>, 0)
            /\ handle' = handle
       ELSE \E s \in CoreCloseStatuses :
              IF s # SH_OK
              THEN /\ Report("close", s, ShareErrorText(s), <<>>, 0)
                   /\ handle' = [handle EXCEPT ![p] = FreeBuff(handle[p])]
              ELSE /\ Report("close", SH_OK, "", <<>>, 0)
                   /\ handle' = [handle EXCEPT ![p] = Detached(FreeBuff(handle[p]))]
    /\ UNCHANGED <<QueueState, pc, mode, pend, LifeFrame>>

\* SharedQueue.close
Close(p) ==
    /\ pc[p] = "ready"
    /\ IF ~handle[p].open
       THEN /\ Report("close", -1, ShareErrorText(SH_ERR_ARG), <<>>, 0)
            /\ handle' = handle
       ELSE \E s \in CoreCloseStatuses :
              IF s # SH_OK
              THEN /\ Report("close", s, ShareErrorText(s), <<>>, 0)
                   /\ handle' = handle
              ELSE /\ Report("close", SH_OK, "", <<>>, 0)
                   /\ handle' = [handle EXCEPT ![p] = Detached(FreeBuff(handle[p]))]
    /\ UNCHANGED <<QueueState, pc, mode, pend, LifeFrame>>

\* SharedQueue.destroy
Destroy(p) ==
    /\ pc[p] = "ready"
    /\ IF ~handle[p].open
       THEN /\ Report("destroy", -1, ShareErrorText(SH_ERR_ARG), <<>>, 0)
            /\ UNCHANGED <<handle, exists>>
       ELSE IF CoreDestroyStatus # SH_OK
       THEN /\ Report("destroy", CoreDestroyStatus,
                      ShareErrorText(CoreDestroyStatus), <<>>, 0)
            /\ UNCHANGED <<handle, exists>>
       ELSE /\ Report("destroy", SH_OK, "", <<>>, 0)
            /\ exists' = FALSE
            /\ handle' = [handle EXCEPT ![p] = Detached(FreeBuff(handle[p]))]
    /\ UNCHANGED <<maxDepth, queue, lifo, everAdded, nAdded, nRemoved, Hist,
                   pc, mode, pend, LifeFrame>>

LifeNext ==
    \E p \in Procs :
        \/ \E d \in {StrA} : LifeAdd(p, d)
        \/ LifeRemove(p)
        \/ Close(p)
        \/ Destroy(p)

LifeSpec == Init /\ [][LifeNext]_vars

\* C12 as stated: destroy on a handle that has been closed or destroyed
\* fails with the invalid-state error and changes nothing: the segment stays
\* and no buffer is released
C12_DestroyAfterClose ==
    [][ \A p \in Procs : (Destroy(p) /\ ~handle[p].open) =>
            /\ last'.exc = "invalid state"
            /\ exists' = exists
            /\ handle' = handle ]_vars

\* C18: the scratch buffer of a SharedQueue object is freed at most once; a
\* remove made after it was freed goes through a NULL queue pointer, which
\* the core rejects without touching the buffer; a close or destroy that
\* raises frees nothing
C18_ScratchBufferFreedOnce ==
    /\ [](\A p \in Procs : handle[p].frees <= 1)
    /\ [][ \A p \in Procs :
            /\ (LifeRemove(p) /\ handle[p].buff = "freed") =>
                   /\ ~handle[p].open
                   /\ last'.status = SH_ERR_ARG
                   /\ handle' = handle
            /\ ((Close(p) \/ Destroy(p)) /\ last'.exc # "") =>
                   handle' = handle ]_vars

\* a remove has been refused on a handle whose buffer was freed by close or
\* destroy
C18_Witness ==
    \E p \in Procs :
        /\ handle[p].frees = 1
        /\ handle[p].buff = "freed"
        /\ last.op = "remove"
        /\ last.exc = "invalid argument"

---------------------------------------------------------------------------
(* Durations: timelimit, target_delay, exceeds_idle_time and clean each    *)
(* build a struct timespec from their float argument and pass it to the    *)
(* core function; the binding calls the function with the parameter list   *)
(* of its cdef and raises TypeError on any other argument list.            *)

\* parameter lists declared in ffi.cdef
CdefParams(fn) ==
    CASE fn = "shr_q_exceeds_idle_time" -> <<"shr_q_s *", "time_t", "long">>
      [] fn = "shr_q_timelimit" -> <<"shr_q_s *", "time_t", "long">>
      [] fn = "shr_q_target_delay" -> <<"shr_q_s *", "time_t", "long">>
      [] fn = "shr_q_clean" -> <<"shr_q_s *", "struct timespec *">>

\* the arguments the four methods pass: self.pq[0] and ts
DurationArgs == <<"shr_q_s *", "struct timespec *">>

\* the binding accepts the call
CallFits(fn, args) == args = CdefParams(fn)

Durations == 1..MaxTime

\* time passes
Tick ==
    /\ now < MaxTime
    /\ now' = now + 1
    /\ UNCHANGED <<QueueState, fired, pc, mode, pend, last, subs, handle, lock,
                   limit, discard, stamp>>

\* SharedQueue.add; the core stamps the item with the time of the add
TimedAdd(p, data) ==
    /\ Add(p, data)
    /\ stamp' = IF nAdded' = nAdded + 1
                THEN [stamp EXCEPT ![nAdded + 1] = now]
                ELSE stamp
    /\ UNCHANGED <<subs, handle, lock, limit, discard, now>>

\* SharedQueue.remove
TimedRemove(p) == Remove(p) /\ UNCHANGED Ext

\* SharedQueue.timelimit
TimeLimit(p, d) ==
    /\ pc[p] = "ready"
    /\ IF CallFits("shr_q_timelimit", DurationArgs)
       THEN /\ limit' = d
            /\ Report("timelimit", SH_OK, "", <<>>, d)
       ELSE /\ limit' = limit
            /\ Report("timelimit", -1, "TypeError", <<>>, d)
    /\ UNCHANGED <<QueueState, pc, mode, pend, subs, handle, lock, discard,
                   now, stamp>>

\* SharedQueue.target_delay
TargetDelay(p, d) ==
    /\ pc[p] = "ready"
    /\ IF CallFits("shr_q_target_delay", DurationArgs)
       THEN Report("target_delay", SH_OK, "", <<>>, d)
       ELSE Report("target_delay", -1, "TypeError", <<>>, d)
    /\ UNCHANGED <<QueueState, pc, mode, pend, Ext>>

\* no item was added within the last d ticks
CoreExceedsIdleTime(d) ==
    \A i \in 1..nAdded : now - stamp[i] > d

\* SharedQueue.exceeds_idle_time
ExceedsIdleTime(p, d) ==
    /\ pc[p] = "ready"
    /\ IF CallFits("shr_q_exceeds_idle_time", DurationArgs)
       THEN Report("exceeds_idle_time", SH_OK, "", <<CoreExceedsIdleTime(d)>>, d)
       ELSE Report("exceeds_idle_time", -1, "TypeError", <<>>, d)
    /\ UNCHANGED <<QueueState, pc, mode, pend, Ext>>

\* age of the i-th item of the queue
Age(i) == now - stamp[queue[i].seq]

\* shr_q_clean(q, timelimit): the number of items at the front of the queue
\* that have exceeded the time limit it is given
ExpiredAtFront(t) ==
    Cardinality({k \in 1..Len(queue) : \A i \in 1..k : Age(i) > t})

\* SharedQueue.clean
TimedClean(p, t) ==
    /\ IF CallFits("shr_q_clean", DurationArgs)
       THEN Clean(p, ExpiredAtFront(t))
       ELSE /\ pc[p] = "ready"
            /\ Report("clean", -1, "TypeError", <<>>, t)
            /\ UNCHANGED <<QueueState, pc, mode, pend>>
    /\ UNCHANGED Ext

\* SharedQueue.discard
Discard(p, flag) ==
    /\ pc[p] = "ready"
    /\ discard' = flag
    /\ Report("discard", SH_OK, "", <<>>, 0)
    /\ UNCHANGED <<QueueState, pc, mode, pend, subs, handle, lock, limit, now,
                   stamp>>

TimeNext ==
    \/ Tick
    \/ \E p \in Procs :
          \/ \E d \in {StrA} : TimedAdd(p, d)
          \/ TimedRemove(p)
          \/ \E d \in Durations : TimeLimit(p, d)
          \/ \E d \in Durations : TargetDelay(p, d)
          \/ \E d \in Durations : ExceedsIdleTime(p, d)
          \/ \E t \in 0..MaxTime : TimedClean(p, t)
          \/ \E f \in BOOLEAN : Discard(p, f)

TimeSpec == Init /\ [][TimeNext]_vars

\* the items a step has taken from the front of the queue
Removed == SubSeq(queue, 1, Len(queue) - Len(queue'))

\* C13 as stated: timelimit(T) sets the time limit T, and with it set a
\* clean removes no item younger than T and, when discard is enabled,
\* leaves no item older than T
C13_CleanHonoursTimeLimit ==
    [][ \A p \in Procs :
          /\ \A d \in Durations : TimeLimit(p, d) => limit' = d
          /\ \A t \in 0..MaxTime : (TimedClean(p, t) /\ limit > 0) =>
                /\ \A i \in 1..Len(Removed) : Age(i) >= limit
                /\ discard => \A i \in 1..Len(queue') :
                                  now - stamp[queue'[i].seq] <= limit ]_vars

\* C17 as stated: each method that takes a duration reaches its core
\* function, so a valid duration never fails before the core is called
C17_DurationCallsReachCore ==
    [][ \A p \in Procs, d \in Durations :
          (TimeLimit(p, d) \/ TargetDelay(p, d) \/ ExceedsIdleTime(p, d)
             \/ TimedClean(p, d)) =>
                /\ last'.status # -1
                /\ last'.exc # "TypeError" ]_vars

---------------------------------------------------------------------------
(* The mutation critical section of the Concurrency Controller.  The guard *)
(* is a token that names its owner; a process that wants to add or remove  *)
(* takes the token when it is free, or when its owner is found dead, does  *)
(* its operation on the queue and gives the token back.  A process can     *)
(* terminate at any point, also while it owns the token.                   *)

LockFrame == <<subs, handle, limit, discard, now, stamp>>

LockQueueFrame == <<QueueState, fired, pc, mode, pend, last>>

\* a process starts an add or a remove
Attempt(p) ==
    /\ lock.st[p] = "idle"
    /\ lock' = [lock EXCEPT !.st[p] = "want"]
    /\ UNCHANGED <<LockQueueFrame, LockFrame>>

\* it finds the token free and takes it
Acquire(p) ==
    /\ lock.st[p] = "want"
    /\ lock.owner = "none"
    /\ lock' = [lock EXCEPT !.owner = p, !.st[p] = "cs"]
    /\ UNCHANGED <<LockQueueFrame, LockFrame>>

RecoverAnyOwner(p) ==
    /\ lock.st[p] = "want"
    /\ lock.owner \notin {"none", p}
    /\ lock' = [lock EXCEPT !.owner = p, !.st[p] = "cs", !.recovered = TRUE]
    /\ UNCHANGED <<LockQueueFrame, LockFrame>>

\* it finds the token owned by a process that is dead and takes it over
Recover(p) ==
    /\ lock.st[p] = "want"
    /\ lock.owner \notin {"none", p}
    /\ lock.st[lock.owner] = "dead"
    /\ lock' = [lock EXCEPT !.owner = p, !.st[p] = "cs", !.recovered = TRUE]
    /\ UNCHANGED <<LockQueueFrame, LockFrame>>

\* inside the critical section it does its add or remove and gives the
\* token back
Commit(p) ==
    /\ lock.st[p] = "cs"
    /\ Add(p, StrA) \/ Remove(p)
    /\ lock' = [lock EXCEPT !.owner = IF lock.owner = p THEN "none" ELSE lock.owner,
                            !.st[p] = "idle"]
    /\ UNCHANGED LockFrame

\* the process terminates where it is
Crash(p) ==
    /\ lock.st[p] # "dead"
    /\ lock' = [lock EXCEPT !.st[p] = "dead"]
    /\ UNCHANGED <<LockQueueFrame, LockFrame>>

LockNext ==
    \E p \in Procs :
        \/ Attempt(p)
        \/ Acquire(p)
        \/ Recover(p)
        \/ Commit(p)
        \/ Crash(p)

\* a live process goes on with its operation, and one that keeps finding
\* the token free or stale gets it
LockSpec ==
    /\ Init
    /\ [][LockNext]_vars
    /\ \A p \in Procs : SF_vars(Acquire(p))
    /\ \A p \in Procs : SF_vars(Recover(p))
    /\ \A p \in Procs : WF_vars(Commit(p))

InCriticalSection == {p \in Procs : lock.st[p] = "cs"}

---------------------------------------------------------------------------
(* Attaching to a queue that exists: one process holds a handle of the     *)
(* queue and uses it while the other constructs its SharedQueue.           *)

AttachInit ==
    /\ exists = TRUE
    /\ maxDepth \in 1..MaxCreateDepth
    /\ queue = <<>>
    /\ lifo = FALSE
    /\ everAdded = FALSE
    /\ fired = <<>>
    /\ nAdded = 0
    /\ nRemoved = 0
    /\ lifoEver = FALSE
    /\ cleaned = FALSE
    /\ creates = 1
    /\ pc = [p \in Procs |-> IF p = "p1" THEN "ready" ELSE "new"]
    /\ mode = [p \in Procs |-> IF p = "p1" THEN SQ_READWRITE ELSE SQ_IMMUTABLE]
    /\ pend = [p \in Procs |-> NoArgs]
    /\ last = Outcome("init", SH_OK, "", <<>>, 0)
    /\ subs = [p \in Procs |-> {}]
    /\ handle = [p \in Procs |-> HandleObj(p = "p1", "null", 0)]
    /\ lock = LockFree
    /\ limit = 0
    /\ discard = FALSE
    /\ now = 0
    /\ stamp = [i \in 1..MaxAdds |-> 0]

\* __init__ from line 161 on; pq[0] is set when the core call succeeds
Attach(p) ==
    /\ CtorCall(p)
    /\ handle' = [handle EXCEPT ![p].open = (pc'[p] = "ready")]
    /\ UNCHANGED <<subs, lock, limit, discard, now, stamp>>

\* __init__ up to the probe
AttachProbe(p, m, size) == CtorProbe(p, m, size) /\ UNCHANGED Ext

\* SharedQueue.add through a constructed handle
AttachAdd(p, data) == Add(p, data) /\ UNCHANGED Ext

\* SharedQueue.remove through a constructed handle
AttachRemove(p) == Remove(p) /\ UNCHANGED Ext

AttachNext ==
    \E p \in Procs :
        \/ \E m \in CtorModes, size \in 0..MaxCreateDepth : AttachProbe(p, m, size)
        \/ Attach(p)
        \/ \E d \in {StrA} : AttachAdd(p, d)
        \/ AttachRemove(p)

AttachSpec == AttachInit /\ [][AttachNext]_vars

\* C15: constructing with a non-zero size for a name that exists fails with
\* the existence error and leaves depth, contents and maximum depth of the
\* queue as they were; a construction that opens the existing queue was
\* called with size 0
C15_SizedCreateOfExisting ==
    [][ \A p \in Procs : (Attach(p) /\ exists) =>
          /\ pend[p].size > 0 =>
                /\ pc'[p] = "failed"
                /\ pend'[p].exc = "existence error"
                /\ queue' = queue
                /\ count' = count
                /\ maxDepth' = maxDepth
                /\ creates' = creates
          /\ pc'[p] = "ready" => (pend[p].size = 0 /\ creates' = creates) ]_vars

\* a construction with a non-zero size has failed on a queue that holds
\* an item
C15_Witness ==
    \E p \in Procs :
        /\ pc[p] = "failed"
        /\ pend[p].size > 0
        /\ pend[p].exc = "existence error"
        /\ queue # <<>>

---------------------------------------------------------------------------
(* prod: waking callers that are blocked in remove_wait or                 *)
(* remove_timedwait.  A woken caller looks at the queue again: it takes    *)
(* the head when there is one; on an empty queue it either returns the     *)
(* empty outcome or goes back to waiting.                                  *)

Blocked == {q \in Procs : pc[q] \in {"rw_blocked", "rtw_blocked"}}

WokenPc(q) == IF pc[q] = "rw_blocked" THEN "rw_woken" ELSE "rtw_woken"

WokenOp(q) == IF pc[q] = "rw_woken" THEN "remove_wait" ELSE "remove_timedwait"

BlockedPc(q) == IF pc[q] = "rw_woken" THEN "rw_blocked" ELSE "rtw_blocked"

\* shr_q_prod: the sets of blocked callers it may wake, at least one of
\* them when there is any
CoreProdWakes == {W \in SUBSET Blocked : Blocked # {} => W # {}}

ProdWakesNone(p) ==
    /\ pc[p] = "ready"
    /\ pc' = pc
    /\ Report("prod", SH_OK, "", <<>>, 0)
    /\ UNCHANGED <<QueueState, mode, pend, Ext>>

\* SharedQueue.prod
Prod(p) ==
    /\ pc[p] = "ready"
    /\ \E W \in CoreProdWakes :
          pc' = [q \in Procs |-> IF q \in W THEN WokenPc(q) ELSE pc[q]]
    /\ Report("prod", SH_OK, "", <<>>, 0)
    /\ UNCHANGED <<QueueState, mode, pend, Ext>>

\* the woken caller returns: the head of the queue, or [] when it is empty
WokenReturn(q) ==
    /\ pc[q] \in {"rw_woken", "rtw_woken"}
    /\ IF queue # <<>> THEN TakeHead(WokenOp(q))
       ELSE NoItem(WokenOp(q), SH_ERR_EMPTY)
    /\ pc' = [pc EXCEPT ![q] = "ready"]
    /\ UNCHANGED <<exists, maxDepth, lifo, everAdded, nAdded, Hist, mode, pend, Ext>>

\* the woken caller finds the queue empty and waits again
WokenBlocksAgain(q) ==
    /\ pc[q] \in {"rw_woken", "rtw_woken"}
    /\ queue = <<>>
    /\ pc' = [pc EXCEPT ![q] = BlockedPc(q)]
    /\ UNCHANGED <<QueueState, fired, last, mode, pend, Ext>>

ProdAdd(p, data) == Add(p, data) /\ UNCHANGED Ext

ProdRemoveWait(p) == RemoveWait(p) /\ UNCHANGED Ext

ProdRemoveWaitReturn(p) == RemoveWaitReturn(p) /\ UNCHANGED Ext

ProdRemoveTimedWait(p) == RemoveTimedWait(p) /\ UNCHANGED Ext

ProdRemoveTimedWaitReturn(p) == RemoveTimedWaitReturn(p) /\ UNCHANGED Ext

ProdRemoveTimedWaitTimeout(p) == RemoveTimedWaitTimeout(p) /\ UNCHANGED Ext

ProdNext ==
    \E p \in Procs :
        \/ \E d \in {StrA} : ProdAdd(p, d)
        \/ ProdRemoveWait(p)
        \/ ProdRemoveWaitReturn(p)
        \/ ProdRemoveTimedWait(p)
        \/ ProdRemoveTimedWaitReturn(p)
        \/ ProdRemoveTimedWaitTimeout(p)
        \/ Prod(p)
        \/ WokenReturn(p)
        \/ WokenBlocksAgain(p)

ProdSpec == Init /\ [][ProdNext]_vars

\* C16: prod wakes at least one of the callers blocked in a waiting remove
\* when there is one, and leaves depth, contents and order of the queue as
\* they were
C16_ProdWakesWithoutDataChange ==
    [][ \A p \in Procs : Prod(p) =>
          /\ queue' = queue
          /\ count' = count
          /\ Blocked # {} =>
                \E q \in Blocked : pc'[q] \in {"rw_woken", "rtw_woken"} ]_vars

\* a prod has woken a blocked caller while the queue held an item
C16_Witness ==
    /\ last.op = "prod"
    /\ queue # <<>>
    /\ \E q \in Procs : pc[q] \in {"rw_woken", "rtw_woken"}

===========================================================================
